---- MODULE Spec2Model ----
(***************************************************************************)
(* net-traffic: the TCP session reconstruction of src/sessions.rs           *)
(* (find_tcp_sessions) and the record ingestion of src/parser.rs            *)
(* (parse_pcap and its helpers).                                            *)
(*                                                                         *)
(* Spec       one call of find_tcp_sessions: the for loop consumes the      *)
(*            input slice one packet per step, then the map is converted    *)
(*            into the returned vector.                                     *)
(* SpecParse  one call of parse_pcap: tshark is run and its output decoded, *)
(*            filter_map converts the records one per step, then the        *)
(*            collected packets are returned.                               *)
(***************************************************************************)
EXTENDS Integers, Sequences, FiniteSets, TLC

\* ---------------------------------------------------------------- bounds
\* longest input slice given to find_tcp_sessions
MaxLen == 3
\* most records in the batch parse_pcap decodes
MaxRecords == 3

\* ------------------------------------------------------------ Option<T>
None == <<>>
Some(x) == <<x>>

\* ------------------------------------------------------- packet universe
\* capture timestamps of the input (arrival order need not follow them)
Timestamps == {1, 2}
IpA == <<10, 0, 0, 1>>
IpB == <<10, 0, 0, 2>>
HostA == [ip |-> IpA, port |-> 1000]
HostB == [ip |-> IpB, port |-> 80]
\* directions of travel <<source, destination>>: A to B, B to A, and A to
\* itself (a packet whose two endpoints coincide)
Flows == { <<HostA, HostB>>, <<HostB, HostA>>, <<HostA, HostA>> }

\* The fields of a NetworkPacket that find_tcp_sessions reads; the other
\* fields are carried along by clone() and never inspected.
MkPacket(ts, src, dst, syn, fin) ==
    [ timestamp |-> ts,
      ip_layer  |-> [ source_ip |-> src.ip, destination_ip |-> dst.ip ],
      tcp_layer |-> [ source_port |-> src.port, destination_port |-> dst.port,
                      flags |-> [ syn |-> syn, fin |-> fin ] ] ]

\* The input universe.  find_tcp_sessions reads the timestamp of SYN and FIN
\* packets only, so the packets with neither flag all carry the first one,
\* and so do the packets a host sends to itself.
NetworkPacket ==
    { p \in { MkPacket(ts, f[1], f[2], syn, fin) :
                ts \in Timestamps, f \in Flows,
                syn \in BOOLEAN, fin \in BOOLEAN } :
        \/ p.timestamp = 1
        \/ /\ p.tcp_layer.flags.syn \/ p.tcp_layer.flags.fin
           /\ p.ip_layer.source_ip # p.ip_layer.destination_ip }

\* ------------------------------------------------------ find_tcp_sessions
\* key of the `if syn` branch
ForwardKey(packet) ==
    << packet.tcp_layer.source_port, packet.tcp_layer.destination_port,
       packet.ip_layer.source_ip, packet.ip_layer.destination_ip >>

\* variant: only the ports are swapped, the addresses stay in packet order
ReverseKey_PortsOnly(packet) ==
    << packet.tcp_layer.destination_port, packet.tcp_layer.source_port,
       packet.ip_layer.source_ip, packet.ip_layer.destination_ip >>

\* key of the `if fin` branch
ReverseKey(packet) ==
    << packet.tcp_layer.destination_port, packet.tcp_layer.source_port,
       packet.ip_layer.destination_ip, packet.ip_layer.source_ip >>

\* HashMap insert / overwrite of one entry
Put(map, key, value) ==
    [ k \in (DOMAIN map) \cup {key} |-> IF k = key THEN value ELSE map[k] ]

\* variant: a repeated SYN restarts the session clock (insert, not or_insert)
OnSyn_ResetStart(map, packet) ==
    IF packet.tcp_layer.flags.syn
    THEN LET key   == << packet.tcp_layer.source_port,
                         packet.tcp_layer.destination_port,
                         packet.ip_layer.source_ip,
                         packet.ip_layer.destination_ip >>
             old   == IF key \in DOMAIN map THEN map[key].packets ELSE <<>>
             end   == IF key \in DOMAIN map THEN map[key].end_timestamp ELSE None
         IN  Put(map, key, [ start_timestamp |-> packet.timestamp,
                             end_timestamp   |-> end,
                             packets         |-> Append(old, packet) ])
    ELSE map

\* sessions.entry(key).or_insert((packet.timestamp, None, vec![])).2.push(..)
OnSyn(map, packet) ==
    IF packet.tcp_layer.flags.syn
    THEN LET key   == ForwardKey(packet)
             entry == IF key \in DOMAIN map
                      THEN map[key]
                      ELSE [ start_timestamp |-> packet.timestamp,
                             end_timestamp   |-> None,
                             packets         |-> <<>> ]
         IN  Put(map, key, [entry EXCEPT !.packets = Append(@, packet)])
    ELSE map

\* variant: the end time is written only while it is still None
OnFin_KeepFirstEnd(map, packet) ==
    IF packet.tcp_layer.flags.fin
    THEN LET key == ReverseKey(packet)
         IN  IF key \in DOMAIN map
             THEN [ map EXCEPT ![key] =
                      [ @ EXCEPT !.end_timestamp =
                                    IF @ = None THEN Some(packet.timestamp) ELSE @,
                                 !.packets       = Append(@, packet) ] ]
             ELSE map
    ELSE map

\* variant: the FIN branch sets the end time and leaves the push to the
\* tracking loop
OnFin_NoPush(map, packet) ==
    IF packet.tcp_layer.flags.fin
    THEN LET key == ReverseKey(packet)
         IN  IF key \in DOMAIN map
             THEN [ map EXCEPT ![key] =
                      [ @ EXCEPT !.end_timestamp = Some(packet.timestamp) ] ]
             ELSE map
    ELSE map

\* variant: a FIN for an unknown key opens an already-closed session
\* (entry(key).or_insert in place of get_mut)
OnFin_OrInsert(map, packet) ==
    IF packet.tcp_layer.flags.fin
    THEN LET key   == ReverseKey(packet)
             entry == IF key \in DOMAIN map
                      THEN map[key]
                      ELSE [ start_timestamp |-> packet.timestamp,
                             end_timestamp   |-> None,
                             packets         |-> <<>> ]
         IN  Put(map, key,
                 [ entry EXCEPT !.end_timestamp = Some(packet.timestamp),
                                !.packets       = Append(@, packet) ])
    ELSE map

\* if let Some(session) = sessions.get_mut(&key) { .1 = Some(ts); .2.push }
OnFin(map, packet) ==
    IF packet.tcp_layer.flags.fin
    THEN LET key == ReverseKey(packet)
         IN  IF key \in DOMAIN map
             THEN [ map EXCEPT ![key] =
                      [ @ EXCEPT !.end_timestamp = Some(packet.timestamp),
                                 !.packets       = Append(@, packet) ] ]
             ELSE map
    ELSE map

\* variant: only sessions that are still open keep collecting packets
TrackAll_OpenOnly(map, packet) ==
    [ k \in DOMAIN map |->
        IF map[k].end_timestamp = None
        THEN [ map[k] EXCEPT !.packets = Append(@, packet) ]
        ELSE map[k] ]

\* for session in sessions.values_mut() { session.2.push(packet.clone()) }
TrackAll(map, packet) ==
    [ k \in DOMAIN map |-> [ map[k] EXCEPT !.packets = Append(@, packet) ] ]

\* variant: the tracking loop runs before the SYN and FIN branches
LoopBody_TrackFirst(map, packet) ==
    OnFin(OnSyn(TrackAll(map, packet), packet), packet)

\* one iteration of `for packet in packets`
LoopBody(map, packet) ==
    TrackAll(OnFin(OnSyn(map, packet), packet), packet)

\* the closure of the final map(..): one TCPSession per map entry
TCPSession(key, entry) ==
    [ source_port      |-> key[1],
      destination_port |-> key[2],
      source_ip        |-> key[3],
      destination_ip   |-> key[4],
      start_timestamp  |-> entry.start_timestamp,
      end_timestamp    |-> entry.end_timestamp,
      packets          |-> entry.packets ]

\* the orders in which HashMap::into_iter may yield the keys
IterationOrders(S) ==
    { o \in [1..Cardinality(S) -> S] :
        \A a, b \in 1..Cardinality(S) : a # b => o[a] # o[b] }

\* ================================================================ parser
\* serde_json::Value: kind is the variant, val its content (the characters
\* of a String, the elements of an Array, the members of an Object).
JNumber == [ kind |-> "Number", val |-> <<>> ]
JString(chars) == [ kind |-> "String", val |-> chars ]
JArray(items) == [ kind |-> "Array", val |-> items ]
JObject(members) == [ kind |-> "Object", val |-> members ]

\* Value::get(key), as_array(), <[Value]>::first(), as_str()
Get(v, key) ==
    IF v.kind = "Object" /\ key \in DOMAIN v.val THEN Some(v.val[key]) ELSE None
AsArray(v) == IF v.kind = "Array" THEN Some(v.val) ELSE None
First(arr) == IF arr = <<>> THEN None ELSE Some(arr[1])
AsStr(v) == IF v.kind = "String" THEN Some(v.val) ELSE None
\* Option::unwrap_or
UnwrapOr(opt, default) == IF opt = None THEN default ELSE opt[1]
\* layers.get(key).and_then(as_array).and_then(first).and_then(as_str)
FirstStr(layers, key) ==
    LET got   == Get(layers, key)
        array == IF got = None THEN None ELSE AsArray(got[1])
        first == IF array = None THEN None ELSE First(array[1])
    IN  IF first = None THEN None ELSE AsStr(first[1])

\* Result<T, PcapError>: val is the value of Ok, or the message of
\* Err(PcapError::ParseError(message))
Ok(x) == [ ok |-> TRUE, val |-> x ]
Err(msg) == [ ok |-> FALSE, val |-> msg ]

\* char::to_digit(16)
HexDigit ==
    ("0" :> 0) @@ ("1" :> 1) @@ ("2" :> 2) @@ ("3" :> 3) @@ ("4" :> 4) @@
    ("5" :> 5) @@ ("6" :> 6) @@ ("7" :> 7) @@ ("8" :> 8) @@ ("9" :> 9) @@
    ("a" :> 10) @@ ("b" :> 11) @@ ("c" :> 12) @@ ("d" :> 13) @@
    ("e" :> 14) @@ ("f" :> 15) @@
    ("A" :> 10) @@ ("B" :> 11) @@ ("C" :> 12) @@ ("D" :> 13) @@
    ("E" :> 14) @@ ("F" :> 15)
IsDigit(c, radix) == c \in DOMAIN HexDigit /\ HexDigit[c] < radix
RECURSIVE Horner(_, _, _)
Horner(digits, radix, acc) ==
    IF digits = <<>> THEN acc
    ELSE Horner(Tail(digits), radix, acc * radix + HexDigit[Head(digits)])
\* uN::from_str_radix(text, radix) and str::parse::<uN>() (radix 10): an
\* optional '+', at least one digit, no other character, value <= uN::MAX
ParseUInt(text, radix, max) ==
    LET digits == IF text # <<>> /\ Head(text) = "+" THEN Tail(text) ELSE text
    IN  IF digits = <<>> THEN None
        ELSE IF \E n \in DOMAIN digits : ~IsDigit(digits[n], radix) THEN None
        ELSE IF Horner(digits, radix, 0) > max THEN None
        ELSE Some(Horner(digits, radix, 0))
U8Max == 255
U16Max == 65535
\* u32::MAX = 4294967295 = U32MaxTens * 10 + U32MaxUnit (kept in two parts:
\* the whole number exceeds the integers of the model checker)
U32MaxTens == 429496729
U32MaxUnit == 5
\* str::parse::<u32>()
ParseU32(text) ==
    LET digits == IF text # <<>> /\ Head(text) = "+" THEN Tail(text) ELSE text
        tens   == Horner(SubSeq(digits, 1, Len(digits) - 1), 10, 0)
        unit   == HexDigit[digits[Len(digits)]]
    IN  IF digits = <<>> THEN None
        ELSE IF \E n \in DOMAIN digits : ~IsDigit(digits[n], 10) THEN None
        ELSE IF tens > U32MaxTens \/ (tens = U32MaxTens /\ unit > U32MaxUnit)
             THEN None
        ELSE Some(IF tens = 0 THEN unit ELSE tens * 10 + unit)

\* str::split(sep): the pieces between the separators, at least one piece
RECURSIVE SplitFrom(_, _, _)
SplitFrom(text, sep, piece) ==
    IF text = <<>> THEN << piece >>
    ELSE IF Head(text) = sep
         THEN << piece >> \o SplitFrom(Tail(text), sep, <<>>)
         ELSE SplitFrom(Tail(text), sep, Append(piece, Head(text)))
Split(text, sep) == SplitFrom(text, sep, <<>>)

\* str::trim_start_matches("0x"): every leading repetition of "0x" goes
RECURSIVE TrimStart0x(_)
TrimStart0x(text) ==
    IF Len(text) >= 2 /\ text[1] = "0" /\ text[2] = "x"
    THEN TrimStart0x(SubSeq(text, 3, Len(text)))
    ELSE text

\* str::parse::<f64>() on plain decimal text: an optional sign, digits with
\* an optional '.', at least one digit.  (Exponents and the inf/nan words,
\* which f64 also accepts, are not among the texts of TimeTexts.)  The value
\* is kept as sign, integer part and fraction digits.
ParseF64(text) ==
    LET signed == text # <<>> /\ Head(text) \in {"+", "-"}
        body   == IF signed THEN Tail(text) ELSE text
        parts  == Split(body, ".")
        whole  == parts[1]
        frac   == IF Len(parts) = 2 THEN parts[2] ELSE <<>>
        allDec(t) == \A n \in DOMAIN t : IsDigit(t[n], 10)
    IN  IF Len(parts) > 2 THEN None
        ELSE IF ~(allDec(whole) /\ allDec(frac)) THEN None
        ELSE IF whole = <<>> /\ frac = <<>> THEN None
        ELSE Some([ neg   |-> signed /\ Head(text) = "-",
                    whole |-> Horner(whole, 10, 0),
                    frac  |-> frac ])

\* secs = t.trunc() as i64; nsecs = (t.fract() * 1e9) as u32 (a negative
\* fraction saturates to 0); DateTime::from_timestamp(secs, nsecs).  The
\* nanoseconds are the first nine fraction digits (binary rounding of the
\* f64 is left out; the sample fractions are exact in binary).
NanoDigits == 9
ToDateTime(t) ==
    LET padded == [ n \in 1..NanoDigits |->
                      IF n <= Len(t.frac) THEN t.frac[n] ELSE "0" ]
    IN  [ secs  |-> IF t.neg THEN 0 - t.whole ELSE t.whole,
          nsecs |-> IF t.neg THEN 0 ELSE Horner(padded, 10, 0) ]

\* parse_mac_address: six zero bytes, the first six ':' pieces overwrite
\* them, a piece that is not hex (or exceeds a byte) counts as 0
ParseMacAddress(mac_str) ==
    LET parts == Split(mac_str, ":")
    IN  [ i \in 1..6 |->
            IF i <= Len(parts) THEN UnwrapOr(ParseUInt(parts[i], 16, U8Max), 0)
            ELSE 0 ]

\* parse_ip_address: four zero bytes, the first four '.' pieces overwrite
\* them, a piece that is not a decimal u8 counts as 0
ParseIpAddress(ip_str) ==
    LET parts == Split(ip_str, ".")
    IN  [ i \in 1..4 |->
            IF i <= Len(parts) THEN UnwrapOr(ParseUInt(parts[i], 10, U8Max), 0)
            ELSE 0 ]

\* bit b of flags_value (flags_value & (1 << b) != 0)
Bit(value, b) == (value \div (2 ^ b)) % 2 = 1
\* parse_tcp_flags
ParseTcpFlags(flags_str) ==
    LET flags_value == UnwrapOr(ParseUInt(TrimStart0x(flags_str), 16, U16Max), 0)
    IN  [ fin |-> Bit(flags_value, 0), syn |-> Bit(flags_value, 1),
          rst |-> Bit(flags_value, 2), psh |-> Bit(flags_value, 3),
          ack |-> Bit(flags_value, 4), urg |-> Bit(flags_value, 5),
          ece |-> Bit(flags_value, 6), cwr |-> Bit(flags_value, 7) ]

\* the default of an unreadable eth.type: 0x0800
EtherTypeIPv4 == 2048
\* parse_ethernet_layer
ParseEthernetLayer(layers) ==
    LET src == FirstStr(layers, "eth.src")
        dst == FirstStr(layers, "eth.dst")
        typ == FirstStr(layers, "eth.type")
    IN  IF src = None THEN Err("Invalid source MAC")
        ELSE IF dst = None THEN Err("Invalid destination MAC")
        ELSE Ok([ source_mac      |-> ParseMacAddress(src[1]),
                  destination_mac |-> ParseMacAddress(dst[1]),
                  ethertype       |->
                      UnwrapOr(IF typ = None THEN None ELSE ParseUInt(typ[1], 16, U16Max),
                               EtherTypeIPv4),
                  frame_check_sequence |-> 0 ])

\* the IPv4Packet literal of parse_ip_layer: all but the addresses is fixed
IPv4Packet(source_ip, destination_ip) ==
    [ version |-> 4, ihl |-> 5, dscp |-> 0, ecn |-> 0, total_length |-> 0,
      identification |-> 0,
      flags |-> [ reserved |-> FALSE, dont_fragment |-> FALSE,
                  more_fragments |-> FALSE ],
      fragment_offset |-> 0, ttl |-> 64, protocol |-> 6,
      header_checksum |-> 0,
      source_ip |-> source_ip, destination_ip |-> destination_ip,
      options |-> <<>> ]

\* variant: an ip.src / ip.dst that cannot be read is defaulted like the
\* optional fields (unwrap_or in place of ok_or_else()?)
ParseIpLayer_DefaultMissing(layers) ==
    Ok(IPv4Packet(ParseIpAddress(UnwrapOr(FirstStr(layers, "ip.src"), <<>>)),
                  ParseIpAddress(UnwrapOr(FirstStr(layers, "ip.dst"), <<>>))))

\* parse_ip_layer
ParseIpLayer(layers) ==
    LET src == FirstStr(layers, "ip.src")
        dst == FirstStr(layers, "ip.dst")
    IN  IF src = None THEN Err("Invalid source IP")
        ELSE IF dst = None THEN Err("Invalid destination IP")
        ELSE Ok(IPv4Packet(ParseIpAddress(src[1]), ParseIpAddress(dst[1])))

\* parse_tcp_layer: never an Err
ParseTcpLayer(layers) ==
    LET \* .and_then(|p| p.as_str()).and_then(|p| p.parse().ok())
        dec16(key) == LET t == FirstStr(layers, key)
                      IN  IF t = None THEN None ELSE ParseUInt(t[1], 10, U16Max)
        dec32(key) == LET t == FirstStr(layers, key)
                      IN  IF t = None THEN None ELSE ParseU32(t[1])
    IN  Ok([ source_port      |-> UnwrapOr(dec16("tcp.srcport"), 0),
             destination_port |-> UnwrapOr(dec16("tcp.dstport"), 0),
             sequence_number  |-> UnwrapOr(dec32("tcp.seq"), 0),
             acknowledgment_number |-> UnwrapOr(dec32("tcp.ack"), 0),
             data_offset      |-> 5,
             flags            |-> ParseTcpFlags(UnwrapOr(FirstStr(layers, "tcp.flags"),
                                                         << "0", "x", "0", "0", "0" >>)),
             window_size      |-> UnwrapOr(dec16("tcp.window_size"), 0),
             checksum         |-> 0,
             urgent_pointer   |-> 0,
             options          |-> <<>> ])

\* parse_application_layer is called by parse_packet_json; parser.rs does
\* not hold its body.  The design document lists the payload as optional
\* (section 6) and lets construction fail for the addresses and the
\* timestamp only (section 3): it never returns an Err.
ParseApplicationLayer(layers) == Ok([ payload |-> <<>> ])

\* parse_packet_json
ParsePacketJson(json) ==
    LET source == Get(json, "_source")
        layers == IF source = None THEN None ELSE Get(source[1], "layers")
    IN  IF layers = None THEN Err("Invalid JSON structure")
        ELSE
        LET l  == layers[1]
            epoch == FirstStr(l, "frame.time_epoch")
            ts == IF epoch = None THEN None ELSE ParseF64(epoch[1])
            ethernet_layer    == ParseEthernetLayer(l)
            ip_layer          == ParseIpLayer(l)
            tcp_layer         == ParseTcpLayer(l)
            application_layer == ParseApplicationLayer(l)
        IN  IF ts = None THEN Err("Invalid timestamp")
            ELSE IF ~ethernet_layer.ok THEN ethernet_layer
            ELSE IF ~ip_layer.ok THEN ip_layer
            ELSE IF ~tcp_layer.ok THEN tcp_layer
            ELSE IF ~application_layer.ok THEN application_layer
            ELSE Ok([ timestamp         |-> ToDateTime(ts[1]),
                      ethernet_layer    |-> ethernet_layer.val,
                      ip_layer          |-> ip_layer.val,
                      tcp_layer         |-> tcp_layer.val,
                      application_layer |-> application_layer.val ])

\* ------------------------------------------------------ decoded records
\* texts as tshark prints them, character by character
TextTime1 == << "1", ".", "5" >>
TextTime2 == << "2", ".", "2", "5" >>
TextMacA == << "a", "a", ":", "0", "0", ":", "0", "0", ":", "0", "0", ":", "0", "0", ":", "0", "1" >>
TextMacB == << "a", "a", ":", "0", "0", ":", "0", "0", ":", "0", "0", ":", "0", "0", ":", "0", "2" >>
TextIpA == << "1", "0", ".", "0", ".", "0", ".", "1" >>
TextIpB == << "1", "0", ".", "0", ".", "0", ".", "2" >>
TextEthType == << "0", "x", "0", "8", "0", "0" >>
TextPortA == << "1", "0", "0", "0" >>
TextPortB == << "8", "0" >>
TextSeq == << "7" >>
TextAck == << "3" >>
TextSyn == << "0", "x", "0", "0", "0", "2" >>
TextFinAck == << "0", "x", "0", "0", "1", "1" >>
TextWindow == << "5", "1", "2" >>
\* texts that are not what the field's parser expects
TextNoNumber == << "1", ".", "5", "s" >>
TextBadMac == << "a", "a", ":", "z", "z", ":", "0", "0" >>
TextBadIp == << "1", "0", ".", "x", ".", "0", ".", "1" >>
TextBigIp == << "1", "0", ".", "0", ".", "0", ".", "3", "0", "0" >>
TextBadPort == << "h", "t", "t", "p" >>
TextBadFlags == << "0", "x", "z", "z" >>

One(text) == JArray(<< JString(text) >>)
\* the layers of a SYN from A:1000 to B:80, every field present
SynMembers ==
    ("frame.time_epoch" :> One(TextTime1)) @@
    ("eth.src" :> One(TextMacA)) @@ ("eth.dst" :> One(TextMacB)) @@
    ("eth.type" :> One(TextEthType)) @@
    ("ip.src" :> One(TextIpA)) @@ ("ip.dst" :> One(TextIpB)) @@
    ("tcp.srcport" :> One(TextPortA)) @@ ("tcp.dstport" :> One(TextPortB)) @@
    ("tcp.seq" :> One(TextSeq)) @@ ("tcp.ack" :> One(TextAck)) @@
    ("tcp.flags" :> One(TextSyn)) @@ ("tcp.window_size" :> One(TextWindow))
\* the layers of the FIN+ACK that B:80 sends back later
FinMembers ==
    ("frame.time_epoch" :> One(TextTime2)) @@
    ("eth.src" :> One(TextMacB)) @@ ("eth.dst" :> One(TextMacA)) @@
    ("ip.src" :> One(TextIpB)) @@ ("ip.dst" :> One(TextIpA)) @@
    ("tcp.srcport" :> One(TextPortB)) @@ ("tcp.dstport" :> One(TextPortA)) @@
    ("tcp.flags" :> One(TextFinAck)) @@ SynMembers
Frame(members) == JObject("_source" :> JObject("layers" :> JObject(members)))
With(field, value) == Frame((field :> value) @@ SynMembers)
Without(fields) ==
    Frame([ f \in (DOMAIN SynMembers) \ fields |-> SynMembers[f] ])

\* The records of a decoded batch: two complete ones, and the SYN record
\* with one thing wrong.
JsonRecords ==
    { Frame(SynMembers), Frame(FinMembers),
      \* no "_source", no "layers"
      JObject(<<>>), JObject("_source" :> JObject(<<>>)),
      \* capture timestamp
      Without({"frame.time_epoch"}),
      With("frame.time_epoch", JArray(<< JNumber >>)),
      With("frame.time_epoch", One(TextNoNumber)),
      \* hardware addresses
      Without({"eth.src"}),
      With("eth.dst", JString(TextMacB)),
      With("eth.src", One(TextBadMac)),
      \* network addresses
      Without({"ip.src"}),
      With("ip.src", One(TextBadIp)),
      With("ip.dst", JArray(<<>>)),
      With("ip.dst", One(TextBigIp)),
      \* optional fields
      Without({"eth.type"}),
      Without({"tcp.srcport"}),
      With("tcp.dstport", One(TextBadPort)),
      Without({"tcp.flags"}),
      With("tcp.flags", One(TextBadFlags)),
      Without({"tcp.seq", "tcp.ack", "tcp.window_size"}),
      With("tcp.window_size", JArray(<< JNumber >>)) }

\* the closure of filter_map, record by record
Converted == [ json \in JsonRecords |-> ParsePacketJson(json) ]

VARIABLES
    \* ---- find_tcp_sessions
    packets,    \* the part of the input slice the loop has consumed
    sessions,   \* the local HashMap: key -> (start, end, packets)
    pc,         \* "loop" inside the for loop, "done" after the return
    result,     \* the returned Vec<TCPSession>
    \* ---- parse_pcap
    ppc,             \* "start", "filter" (inside filter_map), "returned"
    json_values,     \* the decoded records filter_map has consumed
    outcomes,        \* per consumed record: "ok" or the message of its Err
    network_packets, \* the packets collected so far
    returned         \* what parse_pcap returned: "Ok" or the PcapError variant

svars == << packets, sessions, pc, result >>
pvars == << ppc, json_values, outcomes, network_packets, returned >>
vars == << svars, pvars >>

EmptyMap == [ k \in {} |-> None ]

\* parse_pcap is not running
ParserIdle ==
    /\ ppc = "idle"
    /\ json_values = <<>>
    /\ outcomes = <<>>
    /\ network_packets = <<>>
    /\ returned = "none"

\* find_tcp_sessions is not running
SessionsIdle ==
    /\ packets  = <<>>
    /\ sessions = EmptyMap
    /\ pc       = "idle"
    /\ result   = <<>>

\* ------------------------------------------ Spec: find_tcp_sessions(packets)
Init ==
    /\ packets  = <<>>
    /\ sessions = EmptyMap
    /\ pc       = "loop"
    /\ result   = <<>>
    /\ ParserIdle

\* the for loop takes the next packet of the slice
ForEachPacket ==
    /\ pc = "loop"
    /\ Len(packets) < MaxLen
    /\ \E packet \in NetworkPacket :
          /\ packets'  = Append(packets, packet)
          /\ sessions' = LoopBody(sessions, packet)
    /\ UNCHANGED << pc, result, pvars >>

\* the slice is exhausted: sessions.into_iter().map(..).collect()
Collect ==
    /\ pc = "loop"
    /\ \E order \in IterationOrders(DOMAIN sessions) :
          result' = [ n \in 1..Len(order) |->
                        TCPSession(order[n], sessions[order[n]]) ]
    /\ pc' = "done"
    /\ UNCHANGED << packets, sessions, pvars >>

Next == ForEachPacket \/ Collect

Spec == Init /\ [][Next]_vars

\* ------------------------------------------- SpecParse: parse_pcap(pcap_path)
InitParse ==
    /\ ppc = "start"
    /\ json_values = <<>>
    /\ outcomes = <<>>
    /\ network_packets = <<>>
    /\ returned = "none"
    /\ SessionsIdle

Return(value) ==
    /\ ppc' = "returned"
    /\ returned' = value
    /\ UNCHANGED << json_values, outcomes, network_packets, svars >>

\* is_tshark_installed() is false
TsharkNotFound == ppc = "start" /\ Return("TsharkNotFound")
\* Command::output() fails
TsharkIoError == ppc = "start" /\ Return("IoError")
\* tshark exits with a failure status
TsharkFailed == ppc = "start" /\ Return("ParseError")
\* the output of tshark is not a JSON array
JsonInvalid == ppc = "start" /\ Return("JsonError")
\* serde_json::from_str yields the Vec<Value>
Decoded ==
    /\ ppc = "start"
    /\ ppc' = "filter"
    /\ UNCHANGED << json_values, outcomes, network_packets, returned, svars >>

\* filter_map(|packet| parse_packet_json(packet).ok()) on the next record
FilterMap ==
    /\ ppc = "filter"
    /\ Len(json_values) < MaxRecords
    /\ \E json \in JsonRecords :
          LET r == Converted[json]
          IN  /\ json_values' = Append(json_values, json)
              /\ outcomes' = Append(outcomes, IF r.ok THEN "ok" ELSE r.val)
              /\ network_packets' =
                    IF r.ok THEN Append(network_packets, r.val)
                    ELSE network_packets
    /\ UNCHANGED << ppc, returned, svars >>

\* collect() and Ok(network_packets)
CollectOk == ppc = "filter" /\ Return("Ok")

NextParse ==
    \/ TsharkNotFound
    \/ TsharkIoError
    \/ TsharkFailed
    \/ JsonInvalid
    \/ Decoded
    \/ FilterMap
    \/ CollectOk

SpecParse == InitParse /\ [][NextParse]_vars

TypeOK ==
    /\ pc \in {"idle", "loop", "done"}
    /\ ppc \in {"idle", "start", "filter", "returned"}
    /\ Len(packets) <= MaxLen
    /\ \A n \in 1..Len(packets) : packets[n] \in NetworkPacket
    /\ Len(json_values) <= MaxRecords
    /\ Len(outcomes) = Len(json_values)

\* ===================================================== reading the state
\* The 4-tuples the claims speak of, written out from a packet's fields.
FlowKey(p) ==
    << p.tcp_layer.source_port, p.tcp_layer.destination_port,
       p.ip_layer.source_ip, p.ip_layer.destination_ip >>

OpenerKey(p) ==
    << p.tcp_layer.destination_port, p.tcp_layer.source_port,
       p.ip_layer.destination_ip, p.ip_layer.source_ip >>

IsSyn(p) == p.tcp_layer.flags.syn
IsFin(p) == p.tcp_layer.flags.fin

Consumed == 1..Len(packets)
\* the packet at input position j is a SYN with forward key k
Opens(j, k) == IsSyn(packets[j]) /\ FlowKey(packets[j]) = k
\* the packet at input position j is a FIN with reverse key k
Closes(j, k) == IsFin(packets[j]) /\ OpenerKey(packets[j]) = k
Openers(k) == { j \in Consumed : Opens(j, k) }
Closers(k) == { j \in Consumed : Closes(j, k) }
RECURSIVE FirstOpener(_, _)
FirstOpener(k, j) ==
    IF j > Len(packets) THEN 0
    ELSE IF Opens(j, k) THEN j ELSE FirstOpener(k, j + 1)
\* position of the packet that created session k: the first SYN with
\* forward key k (0 when there is none)
CreatedAt(k) == FirstOpener(k, 1)
\* the FIN packets that found session k in the map
ClosersSeen(k) ==
    LET c == CreatedAt(k)
    IN  IF c = 0 THEN {} ELSE { j \in c..Len(packets) : Closes(j, k) }
RECURSIVE LastCloser(_, _, _)
LastCloser(k, c, j) ==
    IF j < c THEN 0
    ELSE IF Closes(j, k) THEN j ELSE LastCloser(k, c, j - 1)
\* position of the last FIN that found session k in the map (0: none)
ClosedAt(k) ==
    LET c == CreatedAt(k)
    IN  IF c = 0 THEN 0 ELSE LastCloser(k, c, Len(packets))
Last == packets[Len(packets)]
Range(seq) == { seq[n] : n \in DOMAIN seq }
SessionKey(s) ==
    << s.source_port, s.destination_port, s.source_ip, s.destination_ip >>
\* the returned vector is the map, entry for entry
ResultIsMap ==
    /\ Len(result) = Cardinality(DOMAIN sessions)
    /\ \A k \in DOMAIN sessions :
          \E n \in DOMAIN result : result[n] = TCPSession(k, sessions[k])
Returned == pc = "done"

\* the sessions as they stand: the map during the pass, the vector after it
View ==
    IF Returned
    THEN { result[n] : n \in DOMAIN result }
    ELSE { TCPSession(k, sessions[k]) : k \in DOMAIN sessions }
Count(seq, v) == Cardinality({ n \in DOMAIN seq : seq[n] = v })
Rep(v, m) == [ x \in 1..m |-> v ]
\* the packet the step under consideration has just consumed
Taken == packets'[Len(packets')]

\* =============================================================== claims

\* ---- C1 (as stated) ----------------------------------------------------
\* C1: once a session's end_timestamp is present, no later packet of the
\* pass changes it (it is written at most once).
C1_EndWrittenOnce ==
    [][ \A k \in DOMAIN sessions :
          sessions[k].end_timestamp # None
            => /\ k \in DOMAIN sessions'
               /\ sessions'[k].end_timestamp = sessions[k].end_timestamp ]_vars

\* C1 (amended): every FIN whose reverse key equals the session key
\* overwrites end_timestamp, and no other packet touches it: at every point
\* of the pass and in the returned vector, end_timestamp is absent when no
\* such FIN was processed since the session was created and is otherwise the
\* timestamp of the LAST such FIN.
C1_EndIsLastMatchingFin ==
    \A s \in View :
       LET f == ClosedAt(SessionKey(s))
       IN  s.end_timestamp =
             IF f = 0 THEN None ELSE Some(packets[f].timestamp)

\* C1 witness: a returned session that saw two matching FINs with different
\* timestamps.
C1_Witness ==
    /\ Returned
    /\ \E s \in View :
          \E i, j \in ClosersSeen(SessionKey(s)) :
             /\ i < j
             /\ packets[i].timestamp # packets[j].timestamp

\* ---- C2 ----------------------------------------------------------------
P1(t) == MkPacket(t, HostA, HostB, TRUE, FALSE)
P2 == MkPacket(1, HostB, HostA, FALSE, FALSE)
P3(t) == MkPacket(t, HostB, HostA, FALSE, TRUE)
IsScenarioA ==
    /\ Len(packets) = 3
    /\ \E t1, t3 \in Timestamps : packets = << P1(t1), P2, P3(t3) >>
ScenarioASession(list) ==
    [ source_port      |-> 1000,
      destination_port |-> 80,
      source_ip        |-> IpA,
      destination_ip   |-> IpB,
      start_timestamp  |-> packets[1].timestamp,
      end_timestamp    |-> Some(packets[3].timestamp),
      packets          |-> list ]

\* C2 (as stated): scenario A returns one session (1000, 80, A, B) from
\* P1.timestamp to P3.timestamp whose packets are [P1, P2, P3].
C2_ScenarioA_Once ==
    (Returned /\ IsScenarioA)
      => result = << ScenarioASession(<< packets[1], packets[2], packets[3] >>) >>

\* C2 (amended): scenario A returns one session (1000, 80, A, B) from
\* P1.timestamp to P3.timestamp whose packets are [P1, P1, P2, P3, P3]: the
\* opening SYN and the closing FIN are each listed twice.
C2_ScenarioA ==
    (Returned /\ IsScenarioA)
      => result = << ScenarioASession(<< packets[1], packets[1], packets[2],
                                         packets[3], packets[3] >>) >>

\* C2 witness: scenario A has been run to the end with P1 and P3 captured
\* at different times.
C2_Witness ==
    /\ Returned
    /\ IsScenarioA
    /\ packets[1].timestamp # packets[3].timestamp

\* ---- C3 ----------------------------------------------------------------
\* C3: every packet processed at or after the step that created a session
\* is in that session's packets list (at least once per time it was
\* processed), whatever its key and flags and whether or not the session
\* is closed.
C3_OverInclusion ==
    \A s \in View :
       LET k == SessionKey(s)
           c == CreatedAt(k)
       IN  /\ c # 0
           /\ \A j \in c..Len(packets) :
                 Count(s.packets, packets[j])
                   >= Cardinality({ i \in c..Len(packets) :
                                      packets[i] = packets[j] })

\* C3 witness: two sessions X and Y; X is already closed, and the last
\* packet belongs only to Y (neither its forward nor its reverse key is X).
C3_Witness ==
    /\ Len(packets) >= 3
    /\ \E x, y \in DOMAIN sessions :
          /\ x # y
          /\ sessions[x].end_timestamp # None
          /\ \E j \in ClosersSeen(x) : j < Len(packets)
          /\ FlowKey(Last) = y
          /\ FlowKey(Last) # x
          /\ OpenerKey(Last) # x
          /\ ~IsSyn(Last)
          /\ Last \in Range(sessions[x].packets)

\* ---- C4 ----------------------------------------------------------------
SynKeys == { FlowKey(packets[j]) : j \in { i \in Consumed : IsSyn(packets[i]) } }

\* C4: there is exactly one session per distinct forward key among the SYN
\* packets and no other; its start_timestamp is the timestamp of the first
\* SYN with that key in input order.
C4_SessionCreation ==
    /\ DOMAIN sessions = SynKeys
    /\ { SessionKey(s) : s \in View } = SynKeys
    /\ Returned => Len(result) = Cardinality(SynKeys)
    /\ \A s \in View :
          LET c == CreatedAt(SessionKey(s))
          IN  c # 0 /\ s.start_timestamp = packets[c].timestamp

\* C4 witness: a returned session whose key was opened twice, the second SYN
\* carrying another timestamp, next to an input packet without SYN.
C4_Witness ==
    /\ Returned
    /\ \E k \in DOMAIN sessions :
          \E i, j \in Openers(k) :
             i < j /\ packets[i].timestamp # packets[j].timestamp
    /\ \E j \in Consumed : ~IsSyn(packets[j])

\* ---- C5 ----------------------------------------------------------------
\* the step takes a FIN-only packet whose reverse key is not in the map
OrphanFinStep ==
    /\ packets' # packets
    /\ IsFin(Taken)
    /\ ~IsSyn(Taken)
    /\ OpenerKey(Taken) \notin DOMAIN sessions

\* C5 (as stated): a FIN without SYN whose reverse key has no entry changes
\* nothing: no session is created and no session's key, start, end or
\* packets list changes.
C5_OrphanFinNoMutation ==
    [][ OrphanFinStep => sessions' = sessions ]_vars

\* C5 (amended): a FIN without SYN whose reverse key has no entry creates no
\* session and changes no session's key, start_timestamp or end_timestamp;
\* its only effect is that every existing session's packets list gets the
\* packet appended once.
C5_OrphanFinOnlyTracked ==
    [][ OrphanFinStep =>
          /\ DOMAIN sessions' = DOMAIN sessions
          /\ \A k \in DOMAIN sessions :
                /\ sessions'[k].start_timestamp = sessions[k].start_timestamp
                /\ sessions'[k].end_timestamp = sessions[k].end_timestamp
                /\ sessions'[k].packets = Append(sessions[k].packets, Taken)
      ]_vars

\* C5 witness: the last packet was such a FIN and sessions existed.
C5_Witness ==
    /\ pc = "loop"
    /\ Len(packets) >= 2
    /\ IsFin(Last)
    /\ ~IsSyn(Last)
    /\ OpenerKey(Last) \notin DOMAIN sessions
    /\ DOMAIN sessions # {}
    /\ \A k \in DOMAIN sessions : Openers(k) # {Len(packets)}

\* ---- C6 ----------------------------------------------------------------
\* C6: every session's packets list is non-empty and starts with the SYN
\* packet that created the session: its forward key is the session key and
\* its timestamp is start_timestamp.
C6_FirstPacketIsOpener ==
    \A s \in View :
       LET k == SessionKey(s)
           c == CreatedAt(k)
       IN  /\ s.packets # <<>>
           /\ c # 0
           /\ s.packets[1] = packets[c]
           /\ IsSyn(s.packets[1])
           /\ FlowKey(s.packets[1]) = k
           /\ s.packets[1].timestamp = s.start_timestamp

\* C6 witness: a returned session that was created after other traffic and
\* saw a second SYN for its key at another time.
C6_Witness ==
    /\ Returned
    /\ \E s \in View :
          /\ CreatedAt(SessionKey(s)) > 1
          /\ \E j \in Openers(SessionKey(s)) :
                packets[j].timestamp # s.start_timestamp

\* ---- C7 ----------------------------------------------------------------
\* C7: a step of the pass never removes or re-keys a session, keeps each
\* existing start_timestamp, and extends each existing packets list (the old
\* list is a proper prefix of the new one); the return emits every session
\* of the map.
C7_MonotoneGrowth ==
    [][ /\ packets' # packets =>
             \A k \in DOMAIN sessions :
                /\ k \in DOMAIN sessions'
                /\ sessions'[k].start_timestamp = sessions[k].start_timestamp
                /\ Len(sessions'[k].packets) > Len(sessions[k].packets)
                /\ SubSeq(sessions'[k].packets, 1, Len(sessions[k].packets))
                     = sessions[k].packets
        /\ pc' # pc => ResultIsMap'
      ]_vars

\* C7 witness: two sessions, one of them closed before the last packet, have
\* been returned.
C7_Witness ==
    /\ Returned
    /\ Len(result) >= 2
    /\ \E k \in DOMAIN sessions :
          \E j \in ClosersSeen(k) : j < Len(packets)

\* ---- C8 ----------------------------------------------------------------
\* f travels the opposite way of s
Swapped(f, s) ==
    /\ f.tcp_layer.source_port = s.tcp_layer.destination_port
    /\ f.ip_layer.source_ip = s.ip_layer.destination_ip
    /\ f.tcp_layer.destination_port = s.tcp_layer.source_port
    /\ f.ip_layer.destination_ip = s.ip_layer.source_ip
DistinctEndpoints(p) ==
    \/ p.tcp_layer.source_port # p.tcp_layer.destination_port
    \/ p.ip_layer.source_ip # p.ip_layer.destination_ip

\* C8: for a SYN S and a later FIN F travelling the opposite way, the
\* reverse key of F is the forward key of S and S's session has an
\* end_timestamp; conversely a session has an end_timestamp only if a FIN
\* with that reverse key was processed, so a session that only saw FINs
\* travelling the way of its SYN (endpoints distinct) stays open.
C8_KeyRoundTrip ==
    /\ \A i, j \in Consumed :
          (i < j /\ IsSyn(packets[i]) /\ IsFin(packets[j])
                 /\ Swapped(packets[j], packets[i]))
            => /\ ReverseKey(packets[j]) = ForwardKey(packets[i])
               /\ FlowKey(packets[i]) \in DOMAIN sessions
               /\ sessions[FlowKey(packets[i])].end_timestamp # None
    /\ \A s \in View :
          s.end_timestamp # None
            => LET c == CreatedAt(SessionKey(s))
               IN  /\ c # 0
                   /\ \E j \in c..Len(packets) :
                         /\ IsFin(packets[j])
                         /\ Swapped(packets[j], packets[c])
                         /\ s.end_timestamp = Some(packets[j].timestamp)

\* C8 witness: one session closed by an opposite FIN, another still open
\* although a FIN travelling the way of its SYN came after its creation.
C8_Witness ==
    /\ Returned
    /\ \E s \in View : s.end_timestamp # None
    /\ \E s \in View :
          /\ s.end_timestamp = None
          /\ \E j \in Consumed :
                /\ j > CreatedAt(SessionKey(s))
                /\ IsFin(packets[j])
                /\ FlowKey(packets[j]) = SessionKey(s)
                /\ DistinctEndpoints(packets[j])

\* ---- C10 ---------------------------------------------------------------
\* copies of the packet at position j in the list of session k
Mult(k, j) ==
    1 + (IF Opens(j, k) THEN 1 ELSE 0) + (IF Closes(j, k) THEN 1 ELSE 0)
RECURSIVE Copies(_, _)
Copies(k, j) ==
    IF j > Len(packets) THEN <<>>
    ELSE Rep(packets[j], Mult(k, j)) \o Copies(k, j + 1)

\* C10: the packets list of the session with key k created at input
\* position c is, in input order, each packet at a position j >= c repeated
\* 1 + [SYN with forward key k] + [FIN with reverse key k] times, and
\* nothing else.
C10_Multiplicity ==
    \A s \in View :
       LET k == SessionKey(s)
           c == CreatedAt(k)
       IN  c # 0 /\ s.packets = Copies(k, c)

\* C10 witness: a returned session lists one packet three times (SYN+FIN
\* between coinciding endpoints) after earlier traffic that it does not list.
C10_Witness ==
    /\ Returned
    /\ \E s \in View :
          /\ CreatedAt(SessionKey(s)) > 1
          /\ \E j \in Consumed :
                /\ j >= CreatedAt(SessionKey(s))
                /\ Mult(SessionKey(s), j) = 3
                /\ Count(s.packets, packets[j]) = 3

\* ---- C9 ----------------------------------------------------------------
\* the layers object of a decoded record, if it has one
HasLayers(json) ==
    /\ json.kind = "Object"
    /\ "_source" \in DOMAIN json.val
    /\ json.val["_source"].kind = "Object"
    /\ "layers" \in DOMAIN json.val["_source"].val
    /\ json.val["_source"].val["layers"].kind = "Object"
FieldsOf(json) == json.val["_source"].val["layers"].val
\* the field is present: an array whose first element is a string
Present(json, field) ==
    /\ HasLayers(json)
    /\ field \in DOMAIN FieldsOf(json)
    /\ FieldsOf(json)[field].kind = "Array"
    /\ FieldsOf(json)[field].val # <<>>
    /\ FieldsOf(json)[field].val[1].kind = "String"
\* its text (no text when it is absent)
TextOf(json, field) ==
    IF Present(json, field) THEN FieldsOf(json)[field].val[1].val ELSE <<>>
DecimalDigits == {"0", "1", "2", "3", "4", "5", "6", "7", "8", "9"}
HexLetters == {"a", "b", "c", "d", "e", "f", "A", "B", "C", "D", "E", "F"}
AllIn(text, alphabet) == \A n \in DOMAIN text : text[n] \in alphabet
\* fractional seconds: decimal digits around at most one '.'
IsSecondsText(text) ==
    /\ AllIn(text, DecimalDigits \cup {"."})
    /\ Cardinality({ n \in DOMAIN text : text[n] = "." }) <= 1
    /\ \E n \in DOMAIN text : text[n] \in DecimalDigits
\* dotted decimal: four numbers 0..255
IsDottedQuad(text) ==
    LET parts == Split(text, ".")
    IN  /\ Len(parts) = 4
        /\ \A i \in 1..4 :
              /\ parts[i] # <<>>
              /\ AllIn(parts[i], DecimalDigits)
              /\ Horner(parts[i], 10, 0) <= 255
IsDecimalText(text) == text # <<>> /\ AllIn(text, DecimalDigits)
IsHexText(text) == text # <<>> /\ AllIn(text, DecimalDigits \cup HexLetters)

\* "a required identifying field is absent or unparseable", as the claim
\* lists them: capture timestamp, source and destination network address
RequiredBad(json) ==
    \/ ~IsSecondsText(TextOf(json, "frame.time_epoch"))
    \/ ~IsDottedQuad(TextOf(json, "ip.src"))
    \/ ~IsDottedQuad(TextOf(json, "ip.dst"))
\* what makes parse_packet_json fail: no layers, no timestamp that reads as
\* a number, or one of the four address fields (hardware or network) absent
CannotConvert(json) ==
    \/ ~HasLayers(json)
    \/ ~IsSecondsText(TextOf(json, "frame.time_epoch"))
    \/ ~Present(json, "eth.src")
    \/ ~Present(json, "eth.dst")
    \/ ~Present(json, "ip.src")
    \/ ~Present(json, "ip.dst")

Skipped(n) == outcomes[n] # "ok"
\* position in network_packets of the packet made from record n
Rank(n) == Cardinality({ m \in 1..n : ~Skipped(m) })
RECURSIVE KeptUpTo(_)
\* the conversions of the records 1..n that were not skipped, in order
KeptUpTo(n) ==
    IF n = 0 THEN <<>>
    ELSE IF Skipped(n) THEN KeptUpTo(n - 1)
         ELSE Append(KeptUpTo(n - 1), Converted[json_values[n]].val)
NoFlag ==
    [ fin |-> FALSE, syn |-> FALSE, rst |-> FALSE, psh |-> FALSE,
      ack |-> FALSE, urg |-> FALSE, ece |-> FALSE, cwr |-> FALSE ]
\* an optional field that is absent or unreadable is given its default
DefaultsApplied(json, p) ==
    /\ ~IsDecimalText(TextOf(json, "tcp.srcport"))
          => p.tcp_layer.source_port = 0
    /\ ~IsDecimalText(TextOf(json, "tcp.dstport"))
          => p.tcp_layer.destination_port = 0
    /\ ~IsDecimalText(TextOf(json, "tcp.seq"))
          => p.tcp_layer.sequence_number = 0
    /\ ~IsDecimalText(TextOf(json, "tcp.ack"))
          => p.tcp_layer.acknowledgment_number = 0
    /\ ~IsDecimalText(TextOf(json, "tcp.window_size"))
          => p.tcp_layer.window_size = 0
    /\ ~Present(json, "tcp.flags") => p.tcp_layer.flags = NoFlag
    /\ (Present(json, "tcp.flags")
          /\ ~IsHexText(TrimStart0x(TextOf(json, "tcp.flags"))))
          => p.tcp_layer.flags = NoFlag
    /\ ~IsHexText(TextOf(json, "eth.type")) => p.ethernet_layer.ethertype = 2048
\* the part of the claim that does not depend on which records are skipped:
\* a record never aborts the batch, the packets are the records that were
\* not skipped in their original order, and the optional fields default
IngestionRest ==
    /\ json_values # <<>> => ppc \in {"filter", "returned"}
    /\ (ppc = "returned" /\ json_values # <<>>) => returned = "Ok"
    /\ network_packets = KeptUpTo(Len(json_values))
    /\ \A n \in DOMAIN json_values :
          ~Skipped(n) =>
             /\ Rank(n) \in DOMAIN network_packets
             /\ DefaultsApplied(json_values[n], network_packets[Rank(n)])

\* C9 (as stated): a record is skipped if and only if its capture timestamp
\* or its source or destination network address is absent or unparseable; a
\* skip never aborts the batch, the other records become packets in their
\* original order, and unreadable optional fields are defaulted.
C9_SkipIffRequiredFieldBad ==
    /\ \A n \in DOMAIN json_values : Skipped(n) <=> RequiredBad(json_values[n])
    /\ IngestionRest

\* C9 (amended): a record is skipped if and only if it has no layers
\* object, its capture timestamp is absent or does not read as a number, or
\* one of its four address fields (source or destination, hardware or
\* network) is absent; an address text that is present but malformed does
\* not skip the record (its unreadable pieces become 0).  A skip never
\* aborts the batch, the other records become packets in their original
\* order, and unreadable optional fields are defaulted.
C9_IngestionIsolation ==
    /\ \A n \in DOMAIN json_values : Skipped(n) <=> CannotConvert(json_values[n])
    /\ IngestionRest

\* C9 witness: a returned batch of three records: the middle one was
\* skipped for its missing hardware address, the last one was kept with a
\* malformed network address, and both kept packets are in the output.
C9_Witness ==
    /\ ppc = "returned"
    /\ returned = "Ok"
    /\ Len(json_values) = 3
    /\ ~Skipped(1)
    /\ outcomes[2] = "Invalid source MAC"
    /\ ~Skipped(3)
    /\ Present(json_values[3], "ip.src")
    /\ ~IsDottedQuad(TextOf(json_values[3], "ip.src"))
    /\ Len(network_packets) = 2
    /\ network_packets[1] # network_packets[2]
====
